---- MODULE Spec2Model ----
(***************************************************************************)
(* Model of the streaming event client (Frontend/src/utils/api.ts,         *)
(* api.streamAnalysis) and of the query session that consumes it           *)
(* (Frontend/src/components/MainContent.tsx, MainContent): the submission  *)
(* of queries, the callback that handles the events of the stream, and the *)
(* two effects and the timeouts that reveal the thinking steps.            *)
(*                                                                         *)
(* Text is a sequence of characters, a response body a sequence of bytes.  *)
(* Characters and bytes are one-element strings; "SP" is a space, "LF" a   *)
(* line feed, "C3" "A9" the two UTF-8 bytes of the character "U+E9", and   *)
(* "U+FFFD" the replacement character a decoder emits for malformed input. *)
(***************************************************************************)
EXTENDS Integers, Sequences, FiniteSets, TLC

VARIABLES
    calls,               \* the invocations of api.streamAnalysis, oldest first
    body,                \* the response body of the call under test (stream client alone)
    query,               \* MainContent state, as declared by its useState calls
    isLoading,
    response,
    overallTitle,
    thinkingHistory,
    showTransition,
    expandedSteps,
    streamingStepIndex,
    streamedText,
    isQuerySubmitted,
    timeouts,            \* the pending setTimeout callbacks, in the order they were set
    lastAlert,           \* the alert() dialog shown last
    rendered,            \* the dependencies the effects last ran with
    lastStreaming,       \* history: the last step index the reveal was at in this query
    ticks                \* history: 50 ms timeouts fired since streamingStepIndex changed

\* the state an event handler of handleSubmit writes
handled == <<response, overallTitle, thinkingHistory, showTransition, timeouts, lastAlert>>

\* the state of the reveal of the thinking steps
reveal == <<expandedSteps, streamingStepIndex, streamedText, lastStreaming, ticks>>

session == <<query, isLoading, isQuerySubmitted, handled, reveal, rendered>>

vars == <<calls, body, session>>

\* null, and a value that is not null
Null == <<>>

Some(x) == <<x>>

(***************************************************************************)
(* Bounds of the model.                                                    *)
(***************************************************************************)
\* number of delimiter-terminated messages a response body is built from
MaxMsgs == 2

\* number of queries submitted in one session
MaxSubmits == 2

\* number of messages the backend sends in answer to one query
MaxSends == 2

\* number of messages the backend sends in a session of the reveal alone
MaxSteps == 2

\* the thinking steps the backend sends in a session of queries one after the
\* other
MaxSessionSteps == 4

(***************************************************************************)
(* String helpers of the JavaScript runtime, as the code uses them.        *)
(***************************************************************************)
\* String.prototype.startsWith
StartsWith(s, p) == Len(s) >= Len(p) /\ SubSeq(s, 1, Len(p)) = p

\* String.prototype.indexOf, 1-based; 0 when p does not occur in s
IndexOf(s, p) ==
    LET hits == {i \in 1..(Len(s) - Len(p) + 1) : SubSeq(s, i, i + Len(p) - 1) = p}
    IN  IF hits = {} THEN 0 ELSE CHOOSE i \in hits : \A j \in hits : i <= j

\* the characters String.prototype.trim removes (of those the model has)
IsWhitespace(c) == c \in {"SP", "LF"}

\* String.prototype.trim
Trim(s) ==
    LET keep == {i \in 1..Len(s) : ~IsWhitespace(s[i])}
    IN  IF keep = {} THEN <<>>
        ELSE SubSeq(s, CHOOSE i \in keep : \A j \in keep : i <= j,
                       CHOOSE i \in keep : \A j \in keep : i >= j)

\* String.prototype.replace(p, '') with a string pattern: the first occurrence only
ReplaceFirst(s, p) ==
    LET i == IndexOf(s, p)
    IN  IF i = 0 THEN s ELSE SubSeq(s, 1, i - 1) \o SubSeq(s, i + Len(p), Len(s))

\* the message separator '\n\n'
Delimiter == <<"LF", "LF">>

\* the literal prefix 'data: '
DataPrefix == <<"d", "a", "t", "a", ":", "SP">>

\* String.prototype.split('\n\n'): leftmost, non-overlapping occurrences
RECURSIVE Split(_)
Split(s) ==
    LET i == IndexOf(s, Delimiter)
    IN  IF i = 0 THEN <<s>>
        ELSE <<SubSeq(s, 1, i - 1)>> \o Split(SubSeq(s, i + Len(Delimiter), Len(s)))

(***************************************************************************)
(* TextDecoder.decode(value, {stream: true}) for UTF-8: a lead byte at the *)
(* end of a chunk is held back until the next chunk completes it.          *)
(***************************************************************************)
RECURSIVE Utf8Decode(_, _)
Utf8Decode(pending, bytes) ==
    IF bytes = <<>> THEN [text |-> <<>>, pending |-> pending]
    ELSE LET b == Head(bytes)
         IN  IF pending = <<>>
             THEN IF b = "C3" THEN Utf8Decode(<<"C3">>, Tail(bytes))
                  ELSE LET r == Utf8Decode(<<>>, Tail(bytes))
                       IN  [r EXCEPT !.text = <<IF b = "A9" THEN "U+FFFD" ELSE b>> \o @]
             ELSE IF b = "A9"
                  THEN LET r == Utf8Decode(<<>>, Tail(bytes))
                       IN  [r EXCEPT !.text = <<"U+E9">> \o @]
                  ELSE LET r == Utf8Decode(<<>>, bytes)
                       IN  [r EXCEPT !.text = <<"U+FFFD">> \o @]

\* decoder.decode(value) without the stream option: nothing is held back, an
\* incomplete sequence at the end of a chunk decodes to the replacement character
DecodeChunkNoStream(pending, bytes) ==
    LET r == Utf8Decode(<<>>, bytes)
    IN  [text    |-> r.text \o (IF r.pending = <<>> THEN <<>> ELSE <<"U+FFFD">>),
         pending |-> <<>>]

\* decoder.decode(value, { stream: true })
DecodeChunk(pending, bytes) == Utf8Decode(pending, bytes)

(***************************************************************************)
(* The wire encoding of events. A JSON object {"type": t, "content": c} is *)
(* written "{" t c "}" with t one character naming the type and c zero or  *)
(* more content characters; "n" is the JSON literal null.                  *)
(***************************************************************************)
TypeOfChar(c) ==
    CASE c = "S" -> "thinking_step"
      [] c = "T" -> "title"
      [] c = "P" -> "paragraph"
      [] c = "M" -> "metadata"
      [] c = "E" -> "error"
      [] c = "D" -> "done"

TypeChars == {"S", "T", "P", "M", "E", "D"}

ContentChars == {"x", "z", "p", "o", "d", "U+E9", "U+FFFD"}

\* JSON.parse: kind "object" with the event, "null" for the literal null,
\* "SyntaxError" when it throws
JSONParse(s) ==
    IF s = <<"n">> THEN [kind |-> "null"]
    ELSE IF /\ Len(s) >= 3
            /\ s[1] = "{"
            /\ s[Len(s)] = "}"
            /\ s[2] \in TypeChars
            /\ \A i \in 3..(Len(s) - 1) : s[i] \in ContentChars
         THEN [kind |-> "object",
               event |-> [type |-> TypeOfChar(s[2]), content |-> SubSeq(s, 3, Len(s) - 1)]]
         ELSE [kind |-> "SyntaxError"]

\* the prefix test done with includes() instead of startsWith()
MessageEventsIncludes(message) ==
    IF IndexOf(Trim(message), DataPrefix) # 0
    THEN LET jsonStr == Trim(SubSeq(message, IndexOf(message, DataPrefix) + Len(DataPrefix),
                                    Len(message)))
             parsed  == JSONParse(jsonStr)
         IN  IF jsonStr # <<>> /\ parsed.kind = "object" THEN <<parsed.event>> ELSE <<>>
    ELSE <<>>

\* the body of the for loop over the complete messages: the events one message
\* hands to onEvent (none or one). Reading event.type of null throws a
\* TypeError, which the catch around JSON.parse swallows like a SyntaxError.
MessageEvents(message) ==
    IF StartsWith(Trim(message), DataPrefix)
    THEN LET jsonStr == Trim(ReplaceFirst(message, DataPrefix))
         IN  IF jsonStr # <<>>
             THEN LET parsed == JSONParse(jsonStr)
                  IN  IF parsed.kind = "object" THEN <<parsed.event>> ELSE <<>>
             ELSE <<>>
    ELSE <<>>

\* the try/catch placed around the for loop instead of inside it: the first
\* message that fails to parse ends the loop over the chunk's messages
RECURSIVE DispatchAllAbortOnError(_)
DispatchAllAbortOnError(messages) ==
    IF messages = <<>> THEN <<>>
    ELSE LET message == Head(messages)
             failed  == /\ StartsWith(Trim(message), DataPrefix)
                        /\ Trim(ReplaceFirst(message, DataPrefix)) # <<>>
                        /\ JSONParse(Trim(ReplaceFirst(message, DataPrefix))).kind # "object"
         IN  IF failed THEN <<>>
             ELSE MessageEvents(message) \o DispatchAllAbortOnError(Tail(messages))

\* the complete messages dispatched last to first
RECURSIVE DispatchAllReversed(_)
DispatchAllReversed(messages) ==
    IF messages = <<>> THEN <<>>
    ELSE DispatchAllReversed(Tail(messages)) \o MessageEvents(Head(messages))

RECURSIVE DispatchAll(_)
DispatchAll(messages) ==
    IF messages = <<>> THEN <<>>
    ELSE MessageEvents(Head(messages)) \o DispatchAll(Tail(messages))

\* buffer = messages.pop() || ''
KeepRemainder(messages) == messages[Len(messages)]

\* every element of the split dispatched, the unterminated last one too
ProcessChunkEager(buffer, pending, value) ==
    LET decoded  == DecodeChunk(pending, value)
        messages == Split(buffer \o decoded.text)
    IN  [buffer  |-> <<>>,
         pending |-> decoded.pending,
         events  |-> DispatchAll(messages)]

\* one iteration of the read loop after reader.read() resolved with a chunk
ProcessChunk(buffer, pending, value) ==
    LET decoded  == DecodeChunk(pending, value)
        text     == buffer \o decoded.text
        messages == Split(text)
    IN  [buffer  |-> KeepRemainder(messages),
         pending |-> decoded.pending,
         events  |-> DispatchAll(SubSeq(messages, 1, Len(messages) - 1))]

\* the two events of the catch block
SynthesizedError == [type |-> "error", content |-> <<"Connection error">>]

SynthesizedDone == [type |-> "done", content |-> <<>>]

CatchEvents == <<SynthesizedError, SynthesizedDone>>

(***************************************************************************)
(* Response bodies. A body is a run of messages, each followed by the      *)
(* delimiter, and a tail the transport delivers before it closes the       *)
(* stream. Messages and tails are named; the name is kept beside the bytes *)
(* so that properties can speak of "the second message of the body".       *)
(***************************************************************************)
JsonBytes(t) == <<"{", t, "}">>

MessageNames == {"title", "done", "accent", "padded", "badjson", "nodata", "null"}

\* the messages the backend sends to a session
SessionMessageNames == {"step", "preview", "title", "accent", "meta", "error", "done"}

\* the messages the backend sends while the thinking steps are revealed
RevealMessageNames == {"step", "preview", "output", "details", "done"}

MessageBytes(name) ==
    CASE name = "title"   -> DataPrefix \o <<"{", "T", "x", "}">>
      [] name = "done"    -> DataPrefix \o JsonBytes("D")
      [] name = "accent"  -> DataPrefix \o <<"{", "P", "C3", "A9", "}">>
      [] name = "padded"  -> <<"LF">> \o DataPrefix \o JsonBytes("S") \o <<"SP">>
      [] name = "badjson" -> DataPrefix \o <<"{", "T">>
      [] name = "nodata"  -> <<"x">> \o DataPrefix \o JsonBytes("T")
      [] name = "step"    -> DataPrefix \o <<"{", "S", "x", "}">>
      [] name = "preview" -> DataPrefix \o <<"{", "S", "p", "x", "x", "x", "x", "x", "x", "}">>
      [] name = "output"  -> DataPrefix \o <<"{", "S", "o", "z", "}">>
      [] name = "details" -> DataPrefix \o <<"{", "S", "d", "x", "}">>
      [] name = "meta"    -> DataPrefix \o JsonBytes("M")
      [] name = "error"   -> DataPrefix \o JsonBytes("E")
      [] name = "null"    -> DataPrefix \o <<"n">>

TailNames == {"none", "cut", "halfcut"}

TailBytes(name) ==
    CASE name = "none"    -> <<>>
      [] name = "cut"     -> DataPrefix \o JsonBytes("D")
      [] name = "halfcut" -> DataPrefix \o JsonBytes("D") \o <<"LF">>

RECURSIVE BodyBytes(_, _)
BodyBytes(msgs, tail) ==
    IF msgs = <<>> THEN TailBytes(tail)
    ELSE MessageBytes(Head(msgs)) \o Delimiter \o BodyBytes(Tail(msgs), tail)

SeqsUpTo(S, n) == UNION {[1..k -> S] : k \in 0..n}

(***************************************************************************)
(* The callback handleSubmit passes to api.streamAnalysis. Its closure     *)
(* holds collectedParagraphs, collectedMetadata and the overallTitle of    *)
(* the render in which handleSubmit was called.                            *)
(***************************************************************************)
NewClosure(title) ==
    [collectedParagraphs |-> <<>>, collectedMetadata |-> Null, overallTitle |-> title]

\* The content of a thinking_step event is an object; on the wire of the model
\* its members follow one another, "p" opening preview, "o" output and "d"
\* details, and what precedes the first of them is the status.
FieldMarkers == {"p", "o", "d"}

\* the text of the member opened by marker; empty when the member is absent
FieldOf(content, marker) ==
    LET at   == IndexOf(content, <<marker>>)
        ends == {j \in (at + 1)..Len(content) : content[j] \in FieldMarkers}
        end  == IF ends = {} THEN Len(content) + 1
                ELSE CHOOSE j \in ends : \A k \in ends : j <= k
    IN  IF at = 0 THEN <<>> ELSE SubSeq(content, at + 1, end - 1)

\* const newStep = { ...event.content, timestamp: Date.now() }; preview and
\* output are strings (absent and '' are both falsy and both <<>> here),
\* details is an object or absent
NewStep(event) ==
    [preview |-> FieldOf(event.content, "p"),
     output  |-> FieldOf(event.content, "o"),
     details |-> IF IndexOf(event.content, <<"d">>) = 0 THEN Null
                 ELSE Some(FieldOf(event.content, "d"))]

\* JSON.stringify(step.details, null, 2)
Stringify(details) == <<"{">> \o details \o <<"}">>

\* step.preview || step.output || step.details, as a condition
HasContent(step) == step.preview # <<>> \/ step.output # <<>> \/ step.details # Null

\* step.preview || step.output || (step.details ? JSON.stringify(...) : '')
ContentToStream(step) ==
    IF step.preview # <<>> THEN step.preview
    ELSE IF step.output # <<>> THEN step.output
    ELSE IF step.details # Null THEN Stringify(step.details[1])
    ELSE <<>>

\* The pending timeouts. setTimeout runs callbacks in the order of their
\* expiry: a timeout cannot fire while one set before it with a delay no
\* longer than its own is pending. Nothing else relates the delays: how long
\* a reveal lasts against them depends on the length of the content, and the
\* texts of the model stand for texts of any length.
TickDelay == 50

CompletionDelay == 300

DoneDelay == 1000

\* setTimeout(() => { setIsLoading(false); setIsQuerySubmitted(false); }, 1000)
DoneTimeout == [delay |-> DoneDelay]

CanFire(k) == \A j \in 1..(k - 1) : timeouts[j].delay > timeouts[k].delay

Remove(seq, k) == SubSeq(seq, 1, k - 1) \o SubSeq(seq, k + 1, Len(seq))

\* clearTimeout(timer) for the tick timeout of the reveal effect, of which at
\* most one is pending
ClearTick(seq) ==
    LET set == {k \in DOMAIN seq : seq[k].delay = TickDelay}
    IN  IF set = {} THEN seq ELSE Remove(seq, CHOOSE k \in set : TRUE)

\* the values the callback reads and writes, as one record
Handled(closure) ==
    [response        |-> response,
     overallTitle    |-> overallTitle,
     thinkingHistory |-> thinkingHistory,
     showTransition  |-> showTransition,
     timeouts        |-> timeouts,
     lastAlert       |-> lastAlert,
     closure         |-> closure]

\* the callback putting a new step at the head of the list
HandleEventPrepends(st, event) ==
    CASE event.type = "thinking_step" ->
            [st EXCEPT !.thinkingHistory = <<NewStep(event)>> \o @]
      [] event.type = "title" ->
            [st EXCEPT !.overallTitle = event.content]
      [] event.type = "paragraph" ->
            LET paragraphs == Append(st.closure.collectedParagraphs, event.content)
            IN  [st EXCEPT !.closure.collectedParagraphs = paragraphs,
                           !.response = Some([paragraphs   |-> paragraphs,
                                              metadata     |-> st.closure.collectedMetadata,
                                              overallTitle |-> st.closure.overallTitle])]
      [] event.type = "metadata" ->
            [st EXCEPT !.closure.collectedMetadata = Some(event.content),
                       !.response = Some([paragraphs   |-> st.closure.collectedParagraphs,
                                          metadata     |-> Some(event.content),
                                          overallTitle |-> st.closure.overallTitle])]
      [] event.type = "error" ->
            [st EXCEPT !.lastAlert = "error"]
      [] event.type = "done" ->
            [st EXCEPT !.showTransition = TRUE, !.timeouts = Append(@, DoneTimeout)]
      [] OTHER -> st

\* (event) => { if (event.type === 'thinking_step') ... else if ... }
HandleEvent(st, event) ==
    CASE event.type = "thinking_step" ->
            [st EXCEPT !.thinkingHistory = Append(@, NewStep(event))]
      [] event.type = "title" ->
            [st EXCEPT !.overallTitle = event.content]
      [] event.type = "paragraph" ->
            LET paragraphs == Append(st.closure.collectedParagraphs, event.content)
            IN  [st EXCEPT !.closure.collectedParagraphs = paragraphs,
                           !.response = Some([paragraphs   |-> paragraphs,
                                              metadata     |-> st.closure.collectedMetadata,
                                              overallTitle |-> st.closure.overallTitle])]
      [] event.type = "metadata" ->
            [st EXCEPT !.closure.collectedMetadata = Some(event.content),
                       !.response = Some([paragraphs   |-> st.closure.collectedParagraphs,
                                          metadata     |-> Some(event.content),
                                          overallTitle |-> st.closure.overallTitle])]
      [] event.type = "error" ->
            [st EXCEPT !.lastAlert = "error"]
      [] event.type = "done" ->
            [st EXCEPT !.showTransition = TRUE, !.timeouts = Append(@, DoneTimeout)]
      [] OTHER -> st

RECURSIVE HandleEvents(_, _)
HandleEvents(st, events) ==
    IF events = <<>> THEN st
    ELSE HandleEvents(HandleEvent(st, Head(events)), Tail(events))

(***************************************************************************)
(* One invocation of api.streamAnalysis.                                   *)
(*   pc        where the async function is suspended: "fetch" (await       *)
(*             fetch), "read" (await reader.read()), "returned"            *)
(*   rest      the bytes the transport holds and has not delivered yet     *)
(*   closed    whether the backend has ended the body                      *)
(*   sent      the number of messages the backend has sent                 *)
(*   pending   the bytes the TextDecoder holds back                        *)
(*   buffer    the local variable buffer                                   *)
(*   onEvent   the callback: "recorder" keeps the events it is given in    *)
(*             delivered, "throwing" does the same and then throws if the  *)
(*             event is a title, "handleSubmit" is the callback of         *)
(*             MainContent                                                 *)
(*   caught    the number of exceptions the catch inside the message loop  *)
(*             has caught and logged                                       *)
(*   closure   the closure of that callback                                *)
(*   nread     the number of bytes read so far                             *)
(*   ending    how the call ended, and atEnding the number of events       *)
(*             delivered before that                                       *)
(***************************************************************************)
NewCall(bytes, closed, onEvent, closure) ==
    [pc        |-> "fetch",
     rest      |-> bytes,
     closed    |-> closed,
     sent      |-> 0,
     pending   |-> <<>>,
     buffer    |-> <<>>,
     onEvent   |-> onEvent,
     closure   |-> closure,
     delivered |-> <<>>,
     caught    |-> 0,
     nread     |-> 0,
     ending    |-> "none",
     atEnding  |-> 0]

(***************************************************************************)
(* React runs the effects of MainContent after every render in which one   *)
(* of their dependencies changed, before it handles anything else: until   *)
(* then no handler, timeout or promise continuation of the page runs.      *)
(***************************************************************************)
\* the dependencies of the two reveal effects (streamSpeed is never set)
Deps ==
    [streamedText       |-> streamedText,
     streamingStepIndex |-> streamingStepIndex,
     thinkingHistory    |-> thinkingHistory,
     isLoading          |-> isLoading]

EffectsPending == rendered # Deps

\* the events on which the throwing callback throws, after it has recorded
\* them: the titles, none of the two events of the catch block
Throws(event) == event.type = "title"

\* the number of events among events on which the callback throws
Thrown(events) == Cardinality({i \in DOMAIN events : Throws(events[i])})

\* the events the callback is given when its first exception ends the loop
\* over the messages
UpToFirstThrow(events) ==
    LET at == {i \in DOMAIN events : Throws(events[i])}
    IN  IF at = {} THEN events
        ELSE SubSeq(events, 1, CHOOSE i \in at : \A j \in at : i <= j)

\* onEvent(event) outside the try block that holds JSON.parse: the exception
\* of the callback ends the dispatch of the messages of the chunk
DispatchUncontained(g, c, events) ==
    IF c.onEvent = "recorder"
    THEN /\ calls' = [calls EXCEPT ![g] = [c EXCEPT !.delivered = @ \o events]]
         /\ UNCHANGED handled
    ELSE IF c.onEvent = "throwing"
    THEN /\ calls' = [calls EXCEPT ![g] = [c EXCEPT !.delivered = @ \o UpToFirstThrow(events)]]
         /\ UNCHANGED handled
    ELSE LET st == HandleEvents(Handled(c.closure), events)
         IN  /\ calls' = [calls EXCEPT ![g] = [c EXCEPT !.closure = st.closure]]
             /\ response' = st.response
             /\ overallTitle' = st.overallTitle
             /\ thinkingHistory' = st.thinkingHistory
             /\ showTransition' = st.showTransition
             /\ timeouts' = st.timeouts
             /\ lastAlert' = st.lastAlert

\* onEvent(event) for each of events in turn, call g moving on to state c. An
\* exception of the callback is thrown inside the try block that holds
\* JSON.parse: its catch logs it and the loop goes on with the next message.
Dispatch(g, c, events) ==
    IF c.onEvent = "recorder"
    THEN /\ calls' = [calls EXCEPT ![g] = [c EXCEPT !.delivered = @ \o events]]
         /\ UNCHANGED handled
    ELSE IF c.onEvent = "throwing"
    THEN /\ calls' = [calls EXCEPT ![g] = [c EXCEPT !.delivered = @ \o events,
                                                    !.caught = @ + Thrown(events)]]
         /\ UNCHANGED handled
    ELSE LET st == HandleEvents(Handled(c.closure), events)
         IN  /\ calls' = [calls EXCEPT ![g] = [c EXCEPT !.closure = st.closure]]
             /\ response' = st.response
             /\ overallTitle' = st.overallTitle
             /\ thinkingHistory' = st.thinkingHistory
             /\ showTransition' = st.showTransition
             /\ timeouts' = st.timeouts
             /\ lastAlert' = st.lastAlert

\* the catch block without its second onEvent call
CatchBlockNoDone(g, why) ==
    /\ ~EffectsPending
    /\ Dispatch(g, [calls[g] EXCEPT !.pc = "returned", !.ending = why,
                                    !.atEnding = Len(calls[g].delivered)],
                <<SynthesizedError>>)
    /\ UNCHANGED <<body, query, isLoading, isQuerySubmitted, reveal, rendered>>

\* the catch block of streamAnalysis: error, then done, then return
CatchBlock(g, why) ==
    /\ ~EffectsPending
    /\ Dispatch(g, [calls[g] EXCEPT !.pc = "returned", !.ending = why,
                                    !.atEnding = Len(calls[g].delivered)],
                CatchEvents)
    /\ UNCHANGED <<body, query, isLoading, isQuerySubmitted, reveal, rendered>>

\* await fetch(url, ...) resolves with response.ok and a readable body
FetchOk(g) ==
    /\ calls[g].pc = "fetch"
    /\ ~EffectsPending
    /\ calls' = [calls EXCEPT ![g].pc = "read"]
    /\ UNCHANGED <<body, session>>

\* await fetch resolves with !response.ok: throw new Error('HTTP error! ...')
FetchNotOk(g) ==
    /\ calls[g].pc = "fetch"
    /\ CatchBlock(g, "http")

\* await fetch rejects (the connection cannot be opened)
FetchReject(g) ==
    /\ calls[g].pc = "fetch"
    /\ CatchBlock(g, "network")

\* response.body is null: throw new Error('Response body is not readable')
NoReader(g) ==
    /\ calls[g].pc = "fetch"
    /\ CatchBlock(g, "unreadable")

\* await reader.read() resolves with {done: false, value}: a chunk of n bytes
ReadChunk(g, n) ==
    /\ calls[g].pc = "read"
    /\ ~EffectsPending
    /\ n \in 1..Len(calls[g].rest)
    /\ LET c     == calls[g]
           value == SubSeq(c.rest, 1, n)
           step  == ProcessChunk(c.buffer, c.pending, value)
       IN  Dispatch(g, [c EXCEPT !.rest = SubSeq(c.rest, n + 1, Len(c.rest)),
                                 !.pending = step.pending,
                                 !.buffer = step.buffer,
                                 !.nread = @ + n],
                    step.events)
    /\ UNCHANGED <<body, query, isLoading, isQuerySubmitted, reveal, rendered>>

\* await reader.read() resolves with {done: true}: break, fall off the try block
ReadEnd(g) ==
    /\ calls[g].pc = "read"
    /\ calls[g].rest = <<>>
    /\ calls[g].closed
    /\ ~EffectsPending
    /\ calls' = [calls EXCEPT ![g] =
                   [@ EXCEPT !.pc = "returned", !.ending = "eof",
                             !.atEnding = Len(calls[g].delivered)]]
    /\ UNCHANGED <<body, session>>

\* the read loop outside the try block: the rejection reaches the caller
ReadRejectUncaught(g) ==
    /\ calls[g].pc = "read"
    /\ ~EffectsPending
    /\ calls' = [calls EXCEPT ![g] =
                   [@ EXCEPT !.pc = "threw", !.ending = "interrupted",
                             !.atEnding = Len(calls[g].delivered)]]
    /\ UNCHANGED <<body, session>>

\* await reader.read() rejects (the connection drops mid-stream)
ReadReject(g) ==
    /\ calls[g].pc = "read"
    /\ CatchBlock(g, "interrupted")

(***************************************************************************)
(* The backend of a session: it sends a message at a time over the open    *)
(* response and may end the body at any moment.                            *)
(***************************************************************************)
ServerSends(g, name) ==
    /\ calls[g].pc = "read"
    /\ ~calls[g].closed
    /\ calls[g].rest = <<>>
    /\ calls[g].sent < MaxSends
    /\ calls' = [calls EXCEPT ![g].rest = MessageBytes(name) \o Delimiter,
                              ![g].sent = @ + 1]
    /\ UNCHANGED <<body, session>>

ServerCloses(g) ==
    /\ calls[g].pc = "read"
    /\ ~calls[g].closed
    /\ calls' = [calls EXCEPT ![g].closed = TRUE]
    /\ UNCHANGED <<body, session>>

(***************************************************************************)
(* MainContent.                                                            *)
(***************************************************************************)
\* const [streamSpeed, setStreamSpeed] = useState(5); setStreamSpeed is never
\* called
StreamSpeed == 5

Min(a, b) == IF a <= b THEN a ELSE b

\* the texts typed into the textarea, and the prompts of the analyst card
QueryTexts == {<<>>, <<"SP">>, <<"q">>}

CustomPrompts == {<<"p">>}

\* {!response && !isQuerySubmitted && (...)}: the card with the prompt
\* buttons, the textarea and the Analyze button is rendered
FormVisible == response = Null /\ ~isQuerySubmitted

\* what the history variables become when streamingStepIndex is set to index
Revealing(index) ==
    /\ lastStreaming' = IF index # Null THEN index ELSE lastStreaming
    /\ ticks' = IF index # streamingStepIndex THEN 0 ELSE ticks

\* onChange={(e) => setQuery(e.target.value)}
SetQuery(text) ==
    /\ FormVisible
    /\ ~EffectsPending
    /\ query # text
    /\ query' = text
    /\ UNCHANGED <<calls, body, isLoading, isQuerySubmitted, handled, reveal, rendered>>

\* handleSubmit without the test of finalQuery.trim()
HandleSubmitUnvalidated(customPrompt) ==
    /\ FormVisible
    /\ ~EffectsPending
    /\ customPrompt = Null => ~isLoading
    /\ Len(calls) < MaxSubmits
    /\ isLoading' = TRUE
    /\ isQuerySubmitted' = TRUE
    /\ response' = Null
    /\ overallTitle' = <<>>
    /\ thinkingHistory' = <<>>
    /\ expandedSteps' = {}
    /\ showTransition' = FALSE
    /\ streamingStepIndex' = Null
    /\ streamedText' = <<>>
    /\ lastStreaming' = Null
    /\ ticks' = 0
    /\ calls' = Append(calls, NewCall(<<>>, FALSE, "handleSubmit",
                                      NewClosure(overallTitle)))
    /\ UNCHANGED <<body, query, timeouts, lastAlert, rendered>>

\* handleSubmit(customPrompt), from a prompt button (customPrompt a prompt) or
\* from the Analyze button (customPrompt null, the button disabled={isLoading}).
\* A blank query is answered with an alert and nothing else. The catch around
\* the await runs only if streamAnalysis rejects, which needs its callback to
\* throw inside the catch block of streamAnalysis; this callback does not.
HandleSubmit(customPrompt) ==
    /\ FormVisible
    /\ ~EffectsPending
    /\ customPrompt = Null => ~isLoading
    /\ LET finalQuery == IF customPrompt # Null THEN customPrompt ELSE query
       IN  IF Trim(finalQuery) = <<>>
           THEN /\ lastAlert' = "query"
                /\ UNCHANGED <<calls, body, query, isLoading, isQuerySubmitted,
                               response, overallTitle, thinkingHistory,
                               showTransition, timeouts, reveal, rendered>>
           ELSE /\ Len(calls) < MaxSubmits
                /\ isLoading' = TRUE
                /\ isQuerySubmitted' = TRUE
                /\ response' = Null
                /\ overallTitle' = <<>>
                /\ thinkingHistory' = <<>>
                /\ expandedSteps' = {}
                /\ showTransition' = FALSE
                /\ streamingStepIndex' = Null
                /\ streamedText' = <<>>
                /\ lastStreaming' = Null
                /\ ticks' = 0
                /\ calls' = Append(calls, NewCall(<<>>, FALSE, "handleSubmit",
                                                  NewClosure(overallTitle)))
                /\ UNCHANGED <<body, query, timeouts, lastAlert, rendered>>

\* the timeout of the done branch fires
DoneTimerFires ==
    /\ ~EffectsPending
    /\ \E k \in DOMAIN timeouts :
          /\ timeouts[k].delay = DoneDelay
          /\ CanFire(k)
          /\ timeouts' = Remove(timeouts, k)
    /\ isLoading' = FALSE
    /\ isQuerySubmitted' = FALSE
    /\ UNCHANGED <<calls, body, query, response, overallTitle, thinkingHistory,
                   showTransition, lastAlert, reveal, rendered>>

\* thinkingHistory[index], the list indexed from 0 as in the code
StepAt(history, index) == history[index + 1]

\* thinkingHistory.findIndex(step => step.preview || step.output || step.details),
\* null for -1
FirstContentIndex(history) ==
    LET found == {i \in 0..(Len(history) - 1) : HasContent(StepAt(history, i))}
    IN  IF found = {} THEN Null ELSE Some(CHOOSE i \in found : \A j \in found : i <= j)

\* the while loop of the completion timeout: the first index from nextIndex on
\* whose step has preview, output or details; null when the loop runs off the list
RECURSIVE ScanFrom(_, _)
ScanFrom(history, nextIndex) ==
    IF nextIndex < Len(history)
    THEN IF HasContent(StepAt(history, nextIndex)) THEN Some(nextIndex)
         ELSE ScanFrom(history, nextIndex + 1)
    ELSE Null

\* the first effect scheduling nothing for a step without content to reveal
RevealEffectStalls ==
    IF streamingStepIndex = Null \/ ~isLoading THEN "none"
    ELSE IF streamingStepIndex[1] >= Len(thinkingHistory) THEN "none"
    ELSE LET contentToStream == ContentToStream(StepAt(thinkingHistory, streamingStepIndex[1]))
         IN  IF contentToStream = <<>> THEN "none"
             ELSE IF Len(streamedText) >= Len(contentToStream) THEN "completion"
             ELSE "tick"

\* the first effect (reveal), which schedules a timeout: "none", "completion"
\* (content revealed in full, or none to reveal) or "tick"
RevealEffect ==
    IF streamingStepIndex = Null \/ ~isLoading THEN "none"
    ELSE IF streamingStepIndex[1] >= Len(thinkingHistory) THEN "none"
    ELSE LET contentToStream == ContentToStream(StepAt(thinkingHistory, streamingStepIndex[1]))
         IN  IF contentToStream = <<>> \/ Len(streamedText) >= Len(contentToStream)
             THEN "completion"
             ELSE "tick"

\* the second effect (start of the reveal): the index it sets, or null when it
\* sets none
StartEffect ==
    IF Len(thinkingHistory) > 0 /\ streamingStepIndex = Null /\ isLoading
    THEN FirstContentIndex(thinkingHistory)
    ELSE Null

\* const timer = setTimeout(() => { ... }, 50), with the streamedText and the
\* contentToStream of the render
TickTimeout ==
    [delay           |-> TickDelay,
     streamedText    |-> streamedText,
     contentToStream |-> ContentToStream(StepAt(thinkingHistory, streamingStepIndex[1]))]

\* setTimeout(() => { ... }, 300), with the streamingStepIndex and the
\* thinkingHistory of the render
CompletionTimeout ==
    [delay              |-> CompletionDelay,
     streamingStepIndex |-> streamingStepIndex[1],
     thinkingHistory    |-> thinkingHistory]

\* The effects run after a render that changed their dependencies. The cleanup
\* of the first effect clears the tick timeout of its previous run; the
\* completion timeout is never cleared.
RunEffects ==
    /\ EffectsPending
    /\ rendered' = Deps
    /\ timeouts' =
         CASE RevealEffect = "tick"       -> Append(ClearTick(timeouts), TickTimeout)
           [] RevealEffect = "completion" -> Append(ClearTick(timeouts), CompletionTimeout)
           [] OTHER                       -> ClearTick(timeouts)
    /\ IF /\ <<rendered.thinkingHistory, rendered.streamingStepIndex, rendered.isLoading>>
               # <<thinkingHistory, streamingStepIndex, isLoading>>
          /\ StartEffect # Null
       THEN /\ streamingStepIndex' = StartEffect
            /\ expandedSteps' = {StartEffect[1]}
            /\ Revealing(StartEffect)
       ELSE UNCHANGED <<streamingStepIndex, expandedSteps, lastStreaming, ticks>>
    /\ UNCHANGED <<calls, body, query, isLoading, isQuerySubmitted, response, overallTitle,
                   thinkingHistory, showTransition, lastAlert, streamedText>>

\* the tick timeout revealing the whole content at once
TickFiresWholeContent ==
    /\ ~EffectsPending
    /\ \E k \in DOMAIN timeouts :
          /\ timeouts[k].delay = TickDelay
          /\ CanFire(k)
          /\ streamedText' = timeouts[k].contentToStream
          /\ timeouts' = Remove(timeouts, k)
    /\ ticks' = ticks + 1
    /\ UNCHANGED <<calls, body, query, isLoading, isQuerySubmitted, response, overallTitle,
                   thinkingHistory, showTransition, lastAlert, expandedSteps,
                   streamingStepIndex, lastStreaming, rendered>>

\* the tick timeout fires: setStreamedText(contentToStream.slice(0, nextLength))
TickFires ==
    /\ ~EffectsPending
    /\ \E k \in DOMAIN timeouts :
          /\ timeouts[k].delay = TickDelay
          /\ CanFire(k)
          /\ LET nextLength == Min(Len(timeouts[k].streamedText) + StreamSpeed,
                                   Len(timeouts[k].contentToStream))
             IN  streamedText' = SubSeq(timeouts[k].contentToStream, 1, nextLength)
          /\ timeouts' = Remove(timeouts, k)
    /\ ticks' = ticks + 1
    /\ UNCHANGED <<calls, body, query, isLoading, isQuerySubmitted, response, overallTitle,
                   thinkingHistory, showTransition, lastAlert, expandedSteps,
                   streamingStepIndex, lastStreaming, rendered>>

\* the completion timeout without its setStreamedText('')
CompletionFiresKeepsText ==
    /\ ~EffectsPending
    /\ \E k \in DOMAIN timeouts :
          /\ timeouts[k].delay = CompletionDelay
          /\ CanFire(k)
          /\ LET nextIndex == ScanFrom(timeouts[k].thinkingHistory,
                                       timeouts[k].streamingStepIndex + 1)
             IN  /\ streamingStepIndex' = nextIndex
                 /\ expandedSteps' = IF nextIndex # Null THEN {nextIndex[1]} ELSE {}
                 /\ Revealing(nextIndex)
          /\ timeouts' = Remove(timeouts, k)
    /\ UNCHANGED <<calls, body, query, isLoading, isQuerySubmitted, response, overallTitle,
                   thinkingHistory, showTransition, lastAlert, streamedText, rendered>>

\* the completion timeout fires: setExpandedSteps(new Set()), setStreamedText(''),
\* then the scan for the next step, with the streamingStepIndex and the
\* thinkingHistory of the render that set the timeout
CompletionFires ==
    /\ ~EffectsPending
    /\ \E k \in DOMAIN timeouts :
          /\ timeouts[k].delay = CompletionDelay
          /\ CanFire(k)
          /\ LET nextIndex == ScanFrom(timeouts[k].thinkingHistory,
                                       timeouts[k].streamingStepIndex + 1)
             IN  /\ streamedText' = <<>>
                 /\ streamingStepIndex' = nextIndex
                 /\ expandedSteps' = IF nextIndex # Null THEN {nextIndex[1]} ELSE {}
                 /\ Revealing(nextIndex)
          /\ timeouts' = Remove(timeouts, k)
    /\ UNCHANGED <<calls, body, query, isLoading, isQuerySubmitted, response, overallTitle,
                   thinkingHistory, showTransition, lastAlert, rendered>>

\* the click on the button of a step without the test of isStreaming and
\* hasContent
ClickStepUnguarded(index) ==
    /\ isLoading
    /\ index \in 0..(Len(thinkingHistory) - 1)
    /\ ~EffectsPending
    /\ expandedSteps' = IF index \in expandedSteps THEN expandedSteps \ {index}
                        ELSE expandedSteps \cup {index}
    /\ UNCHANGED <<calls, body, query, isLoading, isQuerySubmitted, handled,
                   streamingStepIndex, streamedText, lastStreaming, ticks, rendered>>

\* The click on the button of step index, rendered for every step of
\* thinkingHistory while isLoading: onClick={() => !isStreaming && hasContent
\* && toggleStep(idx)}, the button disabled={isStreaming}; toggleStep adds
\* index to a copy of expandedSteps or deletes it from it.
ClickStep(index) ==
    /\ isLoading
    /\ index \in 0..(Len(thinkingHistory) - 1)
    /\ ~EffectsPending
    /\ LET isStreaming == streamingStepIndex = Some(index)
           hasContent  == HasContent(StepAt(thinkingHistory, index))
       IN  IF ~isStreaming /\ hasContent
           THEN expandedSteps' = IF index \in expandedSteps THEN expandedSteps \ {index}
                                 ELSE expandedSteps \cup {index}
           ELSE UNCHANGED expandedSteps
    /\ UNCHANGED <<calls, body, query, isLoading, isQuerySubmitted, handled,
                   streamingStepIndex, streamedText, lastStreaming, ticks, rendered>>

\* MainContent as mounted, its effects run once
SessionInit ==
    /\ query = <<>>
    /\ isLoading = FALSE
    /\ response = Null
    /\ overallTitle = <<>>
    /\ thinkingHistory = <<>>
    /\ showTransition = FALSE
    /\ expandedSteps = {}
    /\ streamingStepIndex = Null
    /\ streamedText = <<>>
    /\ isQuerySubmitted = FALSE
    /\ timeouts = <<>>
    /\ lastAlert = "none"
    /\ rendered = Deps
    /\ lastStreaming = Null
    /\ ticks = 0

(***************************************************************************)
(* The stream client alone: one call with a recording callback, any body,  *)
(* any chunking, the transport free to fail at any await.                  *)
(***************************************************************************)
Init ==
    /\ body \in [msgs : SeqsUpTo(MessageNames, MaxMsgs), tail : TailNames]
    /\ calls = <<NewCall(BodyBytes(body.msgs, body.tail), TRUE, "recorder", NewClosure(<<>>))>>
    /\ SessionInit

Next ==
    \/ \E g \in DOMAIN calls : FetchOk(g)
    \/ \E g \in DOMAIN calls : FetchNotOk(g)
    \/ \E g \in DOMAIN calls : FetchReject(g)
    \/ \E g \in DOMAIN calls : NoReader(g)
    \/ \E g \in DOMAIN calls : \E n \in 1..Len(calls[g].rest) : ReadChunk(g, n)
    \/ \E g \in DOMAIN calls : ReadEnd(g)
    \/ \E g \in DOMAIN calls : ReadReject(g)

Spec == Init /\ [][Next]_vars

(***************************************************************************)
(* The stream client with a callback that throws on some of the events.    *)
(***************************************************************************)
ThrowingInit ==
    /\ body \in [msgs : SeqsUpTo(MessageNames, MaxMsgs), tail : TailNames]
    /\ calls = <<NewCall(BodyBytes(body.msgs, body.tail), TRUE, "throwing", NewClosure(<<>>))>>
    /\ SessionInit

ThrowingSpec == ThrowingInit /\ [][Next]_vars

(***************************************************************************)
(* A session of MainContent: queries are submitted, each starts a call     *)
(* whose events the callback of handleSubmit handles; the transport hands  *)
(* over what the backend sent in one chunk.                                *)
(***************************************************************************)
SessionStart ==
    /\ body = [msgs |-> <<>>, tail |-> "none"]
    /\ calls = <<>>
    /\ SessionInit

SessionNext ==
    \/ \E text \in QueryTexts : SetQuery(text)
    \/ \E customPrompt \in {Null} \cup CustomPrompts : HandleSubmit(customPrompt)
    \/ DoneTimerFires
    \/ RunEffects
    \/ TickFires
    \/ CompletionFires
    \/ \E g \in DOMAIN calls : FetchOk(g)
    \/ \E g \in DOMAIN calls : FetchNotOk(g)
    \/ \E g \in DOMAIN calls : FetchReject(g)
    \/ \E g \in DOMAIN calls : NoReader(g)
    \/ \E g \in DOMAIN calls : \E name \in SessionMessageNames : ServerSends(g, name)
    \/ \E g \in DOMAIN calls : ServerCloses(g)
    \/ \E g \in DOMAIN calls : ReadChunk(g, Len(calls[g].rest))
    \/ \E g \in DOMAIN calls : ReadEnd(g)
    \/ \E g \in DOMAIN calls : ReadReject(g)

SessionSpec == SessionStart /\ [][SessionNext]_vars

(***************************************************************************)
(* The reveal of the thinking steps: the backend sends thinking steps and  *)
(* done, MaxSteps messages in the whole session, and the connection may    *)
(* drop while the body is read.                                            *)
(***************************************************************************)
RECURSIVE SumSent(_)
SumSent(cs) == IF cs = <<>> THEN 0 ELSE Head(cs).sent + SumSent(Tail(cs))

\* the number of messages the backend has sent in the session
TotalSent == SumSent(calls)

RevealNext ==
    \/ \E text \in QueryTexts : SetQuery(text)
    \/ \E customPrompt \in {Null} \cup CustomPrompts : HandleSubmit(customPrompt)
    \/ DoneTimerFires
    \/ RunEffects
    \/ TickFires
    \/ CompletionFires
    \/ \E g \in DOMAIN calls : FetchOk(g)
    \/ \E g \in DOMAIN calls : \E name \in RevealMessageNames :
          TotalSent < MaxSteps /\ ServerSends(g, name)
    \/ \E g \in DOMAIN calls : ReadChunk(g, Len(calls[g].rest))
    \/ \E g \in DOMAIN calls : ReadReject(g)

RevealSpec == SessionStart /\ [][RevealNext]_vars

(***************************************************************************)
(* One query: the backend sends MaxSteps messages of any kind, the steps    *)
(* are revealed and the user clicks their buttons meanwhile.               *)
(***************************************************************************)
ToggleNext ==
    \/ \E customPrompt \in CustomPrompts : calls = <<>> /\ HandleSubmit(customPrompt)
    \/ DoneTimerFires
    \/ RunEffects
    \/ TickFires
    \/ CompletionFires
    \/ \E index \in 0..(Len(thinkingHistory) - 1) : ClickStep(index)
    \/ \E g \in DOMAIN calls : FetchOk(g)
    \/ \E g \in DOMAIN calls : \E name \in SessionMessageNames \cup RevealMessageNames :
          TotalSent < MaxSteps /\ ServerSends(g, name)
    \/ \E g \in DOMAIN calls : ReadChunk(g, Len(calls[g].rest))
    \/ \E g \in DOMAIN calls : ReadReject(g)

ToggleSpec == SessionStart /\ [][ToggleNext]_vars

(***************************************************************************)
(* Queries one after the other, each with thinking steps with and without  *)
(* content, MaxSends of them a query, the connection dropping in the end.  *)
(* A timeout that is pending fires in the end, and the effects of a render *)
(* run.                                                                    *)
(***************************************************************************)
StepMessageNames == {"step", "preview"}

StepsNext ==
    \/ \E customPrompt \in CustomPrompts : HandleSubmit(customPrompt)
    \/ DoneTimerFires
    \/ RunEffects
    \/ TickFires
    \/ CompletionFires
    \/ \E g \in DOMAIN calls : FetchOk(g)
    \/ \E g \in DOMAIN calls : \E name \in StepMessageNames :
          TotalSent < MaxSessionSteps /\ ServerSends(g, name)
    \/ \E g \in DOMAIN calls : ReadChunk(g, Len(calls[g].rest))
    \/ \E g \in DOMAIN calls : ReadReject(g)

StepsSpec ==
    /\ SessionStart
    /\ [][StepsNext]_vars
    /\ WF_vars(RunEffects)
    /\ WF_vars(TickFires)
    /\ WF_vars(CompletionFires)
    /\ WF_vars(DoneTimerFires)

(***************************************************************************)
(* What the properties below refer to.                                     *)
(***************************************************************************)
\* the event a well-formed message of the catalogue encodes; the other
\* messages (a payload that is no JSON or is the JSON null, a text that does
\* not start with the prefix) encode none
WellFormed(name) == name \in {"title", "done", "accent", "padded"}

EncodedEvent(name) ==
    CASE name = "title"  -> [type |-> "title", content |-> <<"x">>]
      [] name = "done"   -> [type |-> "done", content |-> <<>>]
      [] name = "accent" -> [type |-> "paragraph", content |-> <<"U+E9">>]
      [] name = "padded" -> [type |-> "thinking_step", content |-> <<>>]

RECURSIVE EncodedEvents(_)
EncodedEvents(msgs) ==
    IF msgs = <<>> THEN <<>>
    ELSE (IF WellFormed(Head(msgs)) THEN <<EncodedEvent(Head(msgs))>> ELSE <<>>)
         \o EncodedEvents(Tail(msgs))

\* the offset in the body at which the delimiter of its k-th message ends
EndOfMessage(msgs, k) == Len(BodyBytes(SubSeq(msgs, 1, k), "none"))

\* the number of messages of call c whose delimiter has been read completely
Terminated(c) == Cardinality({k \in 1..Len(body.msgs) : EndOfMessage(body.msgs, k) <= c.nread})

\* the bytes of call c read after the delimiter of its last terminated message
Unterminated(c) ==
    SubSeq(BodyBytes(body.msgs, body.tail), EndOfMessage(body.msgs, Terminated(c)) + 1, c.nread)

\* the events call c delivered before its catch block ran, if it ran
Decoded(c) ==
    IF c.ending \in {"none", "eof"} THEN c.delivered
    ELSE SubSeq(c.delivered, 1, c.atEnding)

Types(events) == [i \in 1..Len(events) |-> events[i].type]

Without(msgs, i) == SubSeq(msgs, 1, i - 1) \o SubSeq(msgs, i + 1, Len(msgs))

(***************************************************************************)
(* Properties of the stream client.                                        *)
(***************************************************************************)
\* C1: when the transport has delivered the whole body, in whatever chunks,
\* the callback has been invoked exactly once for each complete well-formed
\* message, in the order of the messages in the body: the delivered sequence
\* is the sequence of the events the terminated messages encode.
C1_ExactlyOnceInOrder ==
    \A g \in DOMAIN calls :
        calls[g].ending = "eof" => calls[g].delivered = EncodedEvents(body.msgs)

C1_Witness ==
    \E g \in DOMAIN calls :
        /\ calls[g].ending = "eof"
        /\ body.msgs = <<"accent", "title">>
        /\ Types(calls[g].delivered) = <<"paragraph", "title">>

\* C2: at every point of a chunked read, and so at its end, the events
\* delivered (and the text held back) are those a single read delivers that
\* hands over the same bytes as one chunk.
C2_RechunkingInvariance ==
    \A g \in DOMAIN calls :
        calls[g].ending \in {"none", "eof"} =>
            LET whole == ProcessChunk(<<>>, <<>>,
                                      SubSeq(BodyBytes(body.msgs, body.tail), 1, calls[g].nread))
            IN  /\ calls[g].delivered = whole.events
                /\ calls[g].buffer = whole.buffer
                /\ calls[g].pending = whole.pending

\* a read cut inside the two-byte character of the second message, after the
\* first message was dispatched
C2_Witness ==
    \E g \in DOMAIN calls :
        /\ calls[g].pc = "read"
        /\ body.msgs = <<"done", "accent">>
        /\ calls[g].pending = <<"C3">>
        /\ calls[g].buffer # <<>>
        /\ Types(calls[g].delivered) = <<"done">>

\* C3: at every point of a read, the events dispatched are those of the
\* messages whose delimiter has been read in full, and the text read after
\* the last such delimiter is held in the buffer (its incomplete last
\* character in the decoder); an unterminated text is not dispatched, at the
\* end of the stream either.
C3_OnlyTerminatedMessagesParsed ==
    \A g \in DOMAIN calls :
        LET c    == calls[g]
            held == Utf8Decode(<<>>, Unterminated(c))
        IN  /\ Decoded(c) = EncodedEvents(SubSeq(body.msgs, 1, Terminated(c)))
            /\ c.buffer = held.text
            /\ c.pending = held.pending

C3_Witness ==
    \E g \in DOMAIN calls :
        /\ calls[g].ending = "eof"
        /\ body.msgs = <<"title">>
        /\ body.tail = "cut"
        /\ calls[g].buffer = TailBytes("cut")
        /\ Types(calls[g].delivered) = <<"title">>

\* C4: a call whose request is answered with a non-success status delivers
\* one error event, then one done event, and nothing else.
C4_HttpErrorGivesErrorThenDone ==
    \A g \in DOMAIN calls :
        calls[g].ending = "http" =>
            /\ calls[g].pc = "returned"
            /\ Types(calls[g].delivered) = <<"error", "done">>

C4_Witness == \E g \in DOMAIN calls : calls[g].ending = "http"

\* C5: every call that has returned has delivered a done event.
C5_DoneBeforeReturn ==
    \A g \in DOMAIN calls :
        calls[g].pc = "returned" =>
            \E i \in 1..Len(calls[g].delivered) : calls[g].delivered[i].type = "done"

\* C6: a done event is the last event a call delivers: nothing follows it.
C6_DoneIsLast ==
    \A g \in DOMAIN calls :
        \A i \in 1..Len(calls[g].delivered) :
            calls[g].delivered[i].type = "done" => i = Len(calls[g].delivered)

\* C7: a call whose read is rejected returns normally, having delivered the
\* events decoded before the rejection, unchanged, then one error event and
\* one done event.
C7_ReadFailureGivesErrorThenDone ==
    \A g \in DOMAIN calls :
        calls[g].ending = "interrupted" =>
            /\ calls[g].pc = "returned"
            /\ calls[g].delivered =
                   EncodedEvents(SubSeq(body.msgs, 1, Terminated(calls[g])))
                   \o <<SynthesizedError, SynthesizedDone>>

C7_Witness ==
    \E g \in DOMAIN calls :
        /\ calls[g].ending = "interrupted"
        /\ calls[g].pc = "returned"
        /\ Types(calls[g].delivered) = <<"title", "error", "done">>
        /\ calls[g].rest # <<>>

\* C8: a message whose payload is not JSON gives no event and the messages
\* around it give theirs: once all messages are read, the events delivered
\* are those of the body without that message.
C8_MalformedPayloadSkipped ==
    \A g \in DOMAIN calls :
        \A i \in 1..Len(body.msgs) :
            (body.msgs[i] = "badjson" /\ Terminated(calls[g]) = Len(body.msgs)) =>
                Decoded(calls[g]) = EncodedEvents(Without(body.msgs, i))

C8_Witness ==
    \E g \in DOMAIN calls :
        /\ body.msgs = <<"badjson", "title">>
        /\ calls[g].ending = "eof"
        /\ Types(calls[g].delivered) = <<"title">>

\* C9: a message whose trimmed text does not start with the prefix gives no
\* event, and the events of the other messages are what they are without it.
C9_NonDataMessageIgnored ==
    \A g \in DOMAIN calls :
        \A i \in 1..Len(body.msgs) :
            (/\ ~StartsWith(Trim(Utf8Decode(<<>>, MessageBytes(body.msgs[i])).text),
                            DataPrefix)
             /\ Terminated(calls[g]) = Len(body.msgs)) =>
                Decoded(calls[g]) = EncodedEvents(Without(body.msgs, i))

C9_Witness ==
    \E g \in DOMAIN calls :
        /\ body.msgs = <<"title", "nodata">>
        /\ calls[g].ending = "eof"
        /\ Types(calls[g].delivered) = <<"title">>

(***************************************************************************)
(* Properties of the session.                                              *)
(***************************************************************************)
\* C10: once a newer query has been submitted, no step of the call of an
\* earlier submission changes thinkingHistory, response, overallTitle,
\* showTransition, isLoading or isQuerySubmitted.
C10_StaleEventsDiscarded ==
    [][\A g \in DOMAIN calls :
          (g < Len(calls) /\ calls'[g] # calls[g]) =>
              UNCHANGED <<thinkingHistory, response, overallTitle, showTransition,
                          isLoading, isQuerySubmitted>>]_vars

(***************************************************************************)
(* Properties of the query session.                                        *)
(***************************************************************************)
\* the calls of streamAnalysis that have not returned
InFlight == {g \in DOMAIN calls : calls[g].pc # "returned"}

\* C11: at most one call of streamAnalysis is in flight at any time:
\* handleSubmit starts no stream while an earlier call has not returned.
C11_OneCallInFlight == Cardinality(InFlight) <= 1

\* nothing is left to run: every call has returned, no timeout is pending and
\* the effects have run
Quiescent ==
    /\ InFlight = {}
    /\ timeouts = <<>>
    /\ ~EffectsPending

\* C12: every accepted submission is followed by the return of the page to
\* the non-loading state: when nothing is left to run, isLoading and
\* isQuerySubmitted are false.
C12_ReturnsToNonLoading == Quiescent => (~isLoading /\ ~isQuerySubmitted)

\* C13: handleSubmit with an empty or whitespace-only query starts no call of
\* streamAnalysis and leaves isLoading, isQuerySubmitted, thinkingHistory,
\* response, expandedSteps, streamingStepIndex and streamedText as they were.
C13_BlankQueryRejected ==
    [][\A customPrompt \in {Null} \cup CustomPrompts :
          (/\ HandleSubmit(customPrompt)
           /\ Trim(IF customPrompt # Null THEN customPrompt ELSE query) = <<>>) =>
              UNCHANGED <<calls, isLoading, isQuerySubmitted, thinkingHistory, response,
                          expandedSteps, streamingStepIndex, streamedText>>]_vars

\* a blank query was submitted, and answered with the alert, after a first
\* query had filled thinkingHistory and its connection had dropped
C13_Witness ==
    /\ lastAlert = "query"
    /\ Trim(query) = <<>>
    /\ Len(calls) = 1
    /\ calls[1].ending = "interrupted"
    /\ thinkingHistory # <<>>
    /\ streamingStepIndex # Null

(***************************************************************************)
(* Properties of the reveal of the thinking steps.                         *)
(***************************************************************************)
\* C14: while streamingStepIndex keeps the same non-null value, the length of
\* streamedText does not decrease from one state to the next.
C14_RevealedLengthGrows ==
    [][(streamingStepIndex # Null /\ streamingStepIndex' = streamingStepIndex) =>
          Len(streamedText') >= Len(streamedText)]_vars

\* C15: whenever streamingStepIndex changes value (the start of the reveal,
\* the completion timeout, the submission of a query), streamedText is empty
\* in the state right after the change.
C15_IndexChangeResetsText ==
    [][streamingStepIndex' # streamingStepIndex => streamedText' = <<>>]_vars

\* the completion timeout has just moved the reveal from step 0, revealed in
\* full, to step 1
C15_Witness ==
    /\ Len(thinkingHistory) = 2
    /\ HasContent(thinkingHistory[1])
    /\ streamingStepIndex = Some(1)
    /\ expandedSteps = {1}
    /\ streamedText = <<>>
    /\ EffectsPending

\* C16: whenever streamingStepIndex goes from null to an index i within one
\* query, i is an index at or after the index the reveal was at last, its step
\* has preview, output or details and no step with any of them lies between
\* the two; the reveal never starts again at an index lower than one it has
\* been at.
C16_RevealStartsForward ==
    [][(streamingStepIndex = Null /\ streamingStepIndex' # Null /\ calls' = calls) =>
          LET i    == streamingStepIndex'[1]
              last == IF lastStreaming = Null THEN -1 ELSE lastStreaming[1]
          IN  /\ i >= last
              /\ i < Len(thinkingHistory')
              /\ HasContent(StepAt(thinkingHistory', i))
              /\ \A j \in (last + 1)..(i - 1) : ~HasContent(StepAt(thinkingHistory', j))]_vars

\* C17: in every reachable state, streamingStepIndex is not the index of a
\* step that has none of preview, output and details.
C17_StreamingStepHasContent ==
    (streamingStepIndex # Null /\ streamingStepIndex[1] < Len(thinkingHistory)) =>
        HasContent(StepAt(thinkingHistory, streamingStepIndex[1]))

\* the step being revealed, and whether it is revealed in full
StreamingStep == StepAt(thinkingHistory, streamingStepIndex[1])

IsRevealing == streamingStepIndex # Null /\ streamingStepIndex[1] < Len(thinkingHistory)

RevealedInFull ==
    IsRevealing /\ Len(streamedText) >= Len(ContentToStream(StreamingStep))

\* k ticks into the reveal of a step, min(k * streamSpeed, L) characters of
\* its content of length L are revealed
RevealedAfterTicks ==
    IsRevealing =>
        Len(streamedText) = Min(ticks * StreamSpeed, Len(ContentToStream(StreamingStep)))

\* C18: the reveal of a step whose content has length L reaches length L
\* after exactly ceil(L / streamSpeed) ticks, and the step that ends it (the
\* completion timeout, after the settling delay) moves the reveal to the next
\* step of thinkingHistory that has content.
C18_RevealTakesCeilTicksThenMovesOn ==
    [][/\ RevealedAfterTicks'
       /\ (/\ RevealedInFull
           /\ calls' = calls
           /\ <<streamingStepIndex', streamedText'>> # <<streamingStepIndex, streamedText>>
           /\ ScanFrom(thinkingHistory, streamingStepIndex[1] + 1) # Null) =>
              streamingStepIndex' = ScanFrom(thinkingHistory, streamingStepIndex[1] + 1)]_vars

\* the steps appended to thinkingHistory since the render before this one
NewSteps ==
    IF Len(thinkingHistory) > Len(rendered.thinkingHistory)
    THEN SubSeq(thinkingHistory, Len(rendered.thinkingHistory) + 1, Len(thinkingHistory))
    ELSE <<>>

\* C19: when the reveal of the last step with content ends and no later step
\* has content, streamingStepIndex becomes null, and it stays null until a new
\* step with content is appended to thinkingHistory.
C19_IdleAfterLastStep ==
    [][/\ (/\ RevealedInFull
           /\ calls' = calls
           /\ <<streamingStepIndex', streamedText'>> # <<streamingStepIndex, streamedText>>
           /\ ScanFrom(thinkingHistory, streamingStepIndex[1] + 1) = Null) =>
              streamingStepIndex' = Null
       /\ (streamingStepIndex = Null /\ streamingStepIndex' # Null) =>
              \E k \in DOMAIN NewSteps : HasContent(NewSteps[k])]_vars

\* C20: the step that ends the reveal of step i, revealed in full, empties
\* streamedText and sets streamingStepIndex to the lowest j > i whose step has
\* content in thinkingHistory as it is at that moment, with expandedSteps =
\* {j}; only when there is no such step it sets streamingStepIndex to null and
\* expandedSteps to the empty set.
C20_CompletionScansCurrentList ==
    [][(/\ RevealedInFull
        /\ calls' = calls
        /\ <<streamingStepIndex', streamedText'>> # <<streamingStepIndex, streamedText>>) =>
           LET nextIndex == ScanFrom(thinkingHistory, streamingStepIndex[1] + 1)
           IN  /\ streamedText' = <<>>
               /\ streamingStepIndex' = nextIndex
               /\ expandedSteps' = IF nextIndex # Null THEN {nextIndex[1]} ELSE {}]_vars

\* s is the text of t up to some length
IsPrefix(s, t) == Len(s) <= Len(t) /\ SubSeq(t, 1, Len(s)) = s

\* C21: a tick of the reveal sets streamedText to the content of the step at
\* streamingStepIndex up to min(previous length + streamSpeed, content
\* length); in every state streamedText is a prefix of the content of that
\* step, and so no longer than it.
C21_TickRevealsPrefix ==
    [][/\ ticks' = ticks + 1 =>
             /\ IsRevealing
             /\ LET contentToStream == ContentToStream(StreamingStep)
                    nextLength      == Min(Len(streamedText) + StreamSpeed,
                                           Len(contentToStream))
                IN  streamedText' = SubSeq(contentToStream, 1, nextLength)
       /\ IsRevealing' => IsPrefix(streamedText', ContentToStream(StreamingStep)')]_vars

\* the second tick has revealed the sixth and last character of a preview
C21_Witness ==
    /\ IsRevealing
    /\ ticks = 2
    /\ Len(streamedText) = StreamSpeed + 1
    /\ streamedText = ContentToStream(StreamingStep)

\* C22: a reveal in progress when done is handled still runs to its end: once
\* done has been handled and nothing is left to run, the step at
\* streamingStepIndex is revealed in full.
C22_RevealFinishesAfterDone ==
    (Quiescent /\ showTransition /\ IsRevealing) => RevealedInFull

\* C23: while isLoading is false, streamingStepIndex does not go from null to
\* an index: no reveal starts until the next query is submitted.
C23_NoRevealStartsWhenNotLoading ==
    [][(~isLoading /\ ~isLoading' /\ streamingStepIndex = Null) =>
          streamingStepIndex' = Null]_vars

(***************************************************************************)
(* Properties of the buttons of the steps.                                 *)
(***************************************************************************)
\* C24: a click on the button of step index changes nothing but whether index
\* is in expandedSteps: streamingStepIndex, streamedText, thinkingHistory and
\* the membership of every other index are as before; a click on the step
\* being revealed, or on a step without preview, output and details, changes
\* nothing at all.
C24_ToggleChangesOnlyItsStep ==
    [][\A index \in 0..(Len(thinkingHistory) - 1) :
          ClickStep(index) =>
              /\ UNCHANGED <<streamingStepIndex, streamedText, thinkingHistory>>
              /\ expandedSteps' \ {index} = expandedSteps \ {index}
              /\ (\/ streamingStepIndex = Some(index)
                  \/ ~HasContent(StepAt(thinkingHistory, index))) => UNCHANGED vars]_vars

\* step 0, revealed before, has been expanded by hand while step 1 is being
\* revealed
C24_Witness ==
    /\ Len(thinkingHistory) = 2
    /\ streamingStepIndex = Some(1)
    /\ expandedSteps = {0, 1}
    /\ isLoading

\* C25: whether a step other than the one being revealed is expanded is the
\* user's choice alone: no tick, no completion timeout and no run of the
\* effects takes such a step out of expandedSteps.
C25_ManualExpansionKept ==
    [][(TickFires \/ CompletionFires \/ RunEffects) =>
          \A j \in expandedSteps : Some(j) # streamingStepIndex => j \in expandedSteps']_vars

(***************************************************************************)
(* Properties of the reveal of steps without content.                      *)
(***************************************************************************)
\* streamingStepIndex is index, the index of a step of thinkingHistory with
\* nothing to reveal, while the query is loading
StalledAt(index) ==
    /\ isLoading
    /\ streamingStepIndex = Some(index)
    /\ index < Len(thinkingHistory)
    /\ ContentToStream(StepAt(thinkingHistory, index)) = <<>>

\* the reveal is at a step with nothing to reveal
Stalled == \E index \in 0..(Len(thinkingHistory) - 1) : StalledAt(index)

\* C26: the reveal does not stay for ever at a step with nothing to reveal:
\* while the query is loading, streamingStepIndex at the index of a step whose
\* content is empty leaves that index in the end, for the index of a step
\* with content or for null.
C26_NoStallOnEmptyContent == Stalled ~> ~Stalled

\* a completion timeout of the query before has set streamingStepIndex to 1,
\* and step 1 of this query has nothing to reveal
C26_Witness ==
    /\ StalledAt(1)
    /\ Len(calls) = 2
    /\ ~EffectsPending

(***************************************************************************)
(* Properties of the list of the steps.                                    *)
(***************************************************************************)
IsThinkingStep(event) == event.type = "thinking_step"

\* the steps of the thinking_step events among events, in their order
StepsOf(events) ==
    LET steps == SelectSeq(events, IsThinkingStep)
    IN  [k \in 1..Len(steps) |-> NewStep(steps[k])]

\* C27: between two submissions thinkingHistory only grows at its end: a
\* chunk read appends one step for each thinking_step event it carries, in
\* their order, and nothing else changes the list, so that every value of the
\* list is a prefix of the values after it.
C27_HistoryAppendOnly ==
    [][Len(calls') = Len(calls) =>
          /\ IsPrefix(thinkingHistory, thinkingHistory')
          /\ \A g \in DOMAIN calls :
                calls'[g].nread # calls[g].nread =>
                    LET c == calls[g]
                        n == calls'[g].nread - c.nread
                    IN  thinkingHistory' = thinkingHistory \o
                            StepsOf(ProcessChunk(c.buffer, c.pending, SubSeq(c.rest, 1, n)).events)
          /\ (\A g \in DOMAIN calls : calls'[g].nread = calls[g].nread) =>
                thinkingHistory' = thinkingHistory]_vars

\* a title has been handled after a step and has set overallTitle, the list
\* of the steps as it was
C27_Witness ==
    /\ Len(thinkingHistory) = 1
    /\ overallTitle # <<>>
    /\ \E g \in DOMAIN calls : calls[g].sent = 2 /\ calls[g].rest = <<>>

(***************************************************************************)
(* Properties of the timeouts of the reveal.                               *)
(***************************************************************************)
\* the pending timeouts of the reveal effect: ticks and completion timeouts
RevealTimeouts == {k \in DOMAIN timeouts : timeouts[k].delay # DoneDelay}

\* timeout k was set by the reveal effect in the state of the last render
SetForRenderedState(k) ==
    /\ isLoading
    /\ streamingStepIndex # Null
    /\ IF timeouts[k].delay = TickDelay
       THEN timeouts[k] = TickTimeout
       ELSE timeouts[k] = CompletionTimeout

\* C28: no timeout of the reveal outlives the state it was set for: at most
\* one is pending, and once the effects of a render have run it is the one set
\* for the state of that render; none is pending when the query is not
\* loading or a new query has just been submitted.
C28_NoLeakedRevealTimeout ==
    /\ Cardinality(RevealTimeouts) <= 1
    /\ ~EffectsPending => \A k \in RevealTimeouts : SetForRenderedState(k)

(***************************************************************************)
(* Properties of the stream client with a callback that throws.            *)
(***************************************************************************)
\* C29, as stated: an exception of the callback is not contained by the loop
\* over the messages: once the callback has thrown on a parsed event, no
\* later message of the stream is dispatched.
C29_CallbackExceptionAborts ==
    \A g \in DOMAIN calls :
        \A i \in DOMAIN Decoded(calls[g]) :
            Throws(Decoded(calls[g])[i]) => i = Len(Decoded(calls[g]))

\* C29, amended: an exception the callback throws on a parsed event is caught
\* by the catch around JSON.parse and onEvent: it is logged, the loop goes on,
\* and the events dispatched are those of all the messages whose delimiter
\* has been read, whether the callback threw on them or not.
C29_CallbackExceptionContained ==
    \A g \in DOMAIN calls :
        LET c == calls[g]
        IN  /\ Decoded(c) = EncodedEvents(SubSeq(body.msgs, 1, Terminated(c)))
            /\ c.caught = Thrown(EncodedEvents(SubSeq(body.msgs, 1, Terminated(c))))
            /\ c.pc # "threw"

\* the callback threw on the title, and the paragraph after it was dispatched
C29_Witness ==
    \E g \in DOMAIN calls :
        /\ calls[g].onEvent = "throwing"
        /\ body.msgs = <<"title", "accent">>
        /\ calls[g].ending = "eof"
        /\ calls[g].caught = 1
        /\ Types(calls[g].delivered) = <<"title", "paragraph">>

(***************************************************************************)
(* Properties of streamingStepIndex as an index of the list.               *)
(***************************************************************************)
\* C30: in every state, streamingStepIndex is null or the index of a step of
\* thinkingHistory as it is in that state, also right after a submission has
\* emptied the list.
C30_StreamingIndexInList ==
    streamingStepIndex # Null => streamingStepIndex[1] < Len(thinkingHistory)

====
